---------------------------- MODULE Spec2Model ----------------------------
(***************************************************************************)
(* GravityCollector-Client: the serial listener, the HTTP sender thread    *)
(* and the orchestrator run_client (src/src/client.py), with the parsing   *)
(* helpers they call (src/src/helpers.py).                                 *)
(*                                                                         *)
(* Representation.  A byte is its integer value; a bytes object and a      *)
(* decoded text are sequences of integers (code points).  An optional      *)
(* value (Python None or a value) is a sequence of length 0 or 1.  An      *)
(* extracted value is a sequence of integers tagged by its first element:  *)
(* <<TInt, n>>, <<TFloat, whole, d1, d2, ..>> (whole part and the decimal  *)
(* digits of the fraction), <<TStr, c1, c2, ..>>.                          *)
(***************************************************************************)
EXTENDS Integers, Sequences, FiniteSets, TLC

(***************************************************************************)
(* Bounds of the model.                                                    *)
(***************************************************************************)
\* well-formed lines the instrument emits during one run of run_client
MaxLines == 12
\* bytes the device delivers when the listener runs on its own
MaxBytes == 5
\* well-formed lines put on the queue when the sender runs on its own
MaxFeed == 21
\* malformed lines (too few tokens) put on the queue beside them
MaxBad == 1
\* lines waiting on the queue when the sender runs on its own
MaxQueued == 1
\* lines produced and not yet dequeued: how far the producer runs ahead of
\* the sender
MaxInFlight == 2
\* sends the collector fails to acknowledge during one run
MaxFail == 2

(***************************************************************************)
(* Byte values used on the wire.                                           *)
(***************************************************************************)
LF == 10
CR == 13
COMMA == 44
DOT == 46
DOLLAR == 36
DIGIT0 == 48
\* a byte above 127 that is no legal UTF-8 sequence on its own and is not in
\* ILLEGAL_CHARS
HIGH == 200

None == <<>>
Some(x) == <<x>>

TInt == 0
TFloat == 1
TStr == 2

(***************************************************************************)
(* helpers.py                                                              *)
(***************************************************************************)
\* ILLEGAL_CHARS = list(chain(range(0, 32), [255, 256]))
ILLEGAL_CHARS == (0 .. 31) \cup {255, 256}

airborne_fieldmap ==
    << "header", "gravity", "long_acc", "cross_acc", "beam", "s_temperature",
       "status", "pressure", "e_temperature", "latitude", "longitude" >>

\* the fields whose cast is not the default int
field_casts == [header |-> "str", latitude |-> "float", longitude |-> "float",
                speed |-> "float", course |-> "float", datetime |-> "marine_time"]

gps_delta == 315964800
gpsweek_cf == 604800

\* mutant of Find: the index of the last b
FindLast(s, b) ==
    IF \E j \in 1 .. Len(s) : s[j] = b
    THEN (CHOOSE j \in 1 .. Len(s) :
            s[j] = b /\ \A h \in (j + 1) .. Len(s) : s[h] # b) - 1
    ELSE -1

\* s.find(b): the 0-based index of the first b in s, -1 when there is none
Find(s, b) ==
    IF \E j \in 1 .. Len(s) : s[j] = b
    THEN (CHOOSE j \in 1 .. Len(s) : s[j] = b /\ \A h \in 1 .. (j - 1) : s[h] # b) - 1
    ELSE -1

\* s[a:] with a 0-based
From(s, a) == SubSeq(s, a + 1, Len(s))

\* s[:a] with a 0-based
UpTo(s, a) == SubSeq(s, 1, a)

Filter(s, Keep(_)) == SelectSeq(s, Keep)

RECURSIVE Split(_, _)
\* str.split(sep): always at least one token, empty tokens kept
Split(s, sep) ==
    LET i == Find(s, sep)
    IN  IF i < 0 THEN << s >>
        ELSE << UpTo(s, i) >> \o Split(From(s, i + 1), sep)

IsDigit(c) == c \in DIGIT0 .. (DIGIT0 + 9)

RECURSIVE DigitsVal(_)
DigitsVal(s) ==
    IF s = << >> THEN 0
    ELSE 10 * DigitsVal(UpTo(s, Len(s) - 1)) + (s[Len(s)] - DIGIT0)

\* int(tok) succeeds (no ValueError); over the bytes of the model a token is
\* an int literal exactly when it is a non-empty run of digits
IntOk(tok) == Len(tok) > 0 /\ \A j \in 1 .. Len(tok) : IsDigit(tok[j])

IntVal(tok) == DigitsVal(tok)

\* float(tok) succeeds: digits with at most one dot and at least one digit
FloatOk(tok) ==
    LET i == Find(tok, DOT)
        whole == IF i < 0 THEN tok ELSE UpTo(tok, i)
        frac == IF i < 0 THEN << >> ELSE From(tok, i + 1)
    IN  /\ \A j \in 1 .. Len(whole) : IsDigit(whole[j])
        /\ \A j \in 1 .. Len(frac) : IsDigit(frac[j])
        /\ Len(whole) + Len(frac) > 0

RECURSIVE TrimZeros(_)
TrimZeros(d) ==
    IF d # << >> /\ d[Len(d)] = 0 THEN TrimZeros(UpTo(d, Len(d) - 1)) ELSE d

\* float(tok) as << whole, fraction digits >>
FloatVal(tok) ==
    LET i == Find(tok, DOT)
        whole == IF i < 0 THEN tok ELSE UpTo(tok, i)
        frac == IF i < 0 THEN << >> ELSE From(tok, i + 1)
    IN  << DigitsVal(whole) >> \o
        TrimZeros([j \in 1 .. Len(frac) |-> frac[j] - DIGIT0])

\* mutant of convert_gps_time: the offset of the GPS epoch left out
convert_gps_time_no_delta(gpsweek, gpsweekseconds) ==
    << (gpsweek * gpsweek_cf) + gpsweekseconds[1] >> \o Tail(gpsweekseconds)

\* convert_gps_time(gpsweek, gpsweekseconds); gpsweek an int, gpsweekseconds
\* a float << whole, fraction digits >>; the result a float of the same shape
convert_gps_time(gpsweek, gpsweekseconds) ==
    LET gps_ticks_whole == (gpsweek * gpsweek_cf) + gpsweekseconds[1]
    IN  << gps_delta + gps_ticks_whole >> \o Tail(gpsweekseconds)

\* bytes([c for c in bytearr if c not in ILLEGAL_CHARS])
StripIllegal(bytearr) == Filter(bytearr, LAMBDA c : c \notin ILLEGAL_CHARS)

\* raw.decode('utf-8', errors='ignore') over single bytes: an ASCII byte is
\* its own code point, a lone byte above 127 is no valid sequence and is
\* ignored
Utf8Ignore(raw) == Filter(raw, LAMBDA c : c < 128)

RECURSIVE LStrip(_, _)
LStrip(s, chars) ==
    IF s # << >> /\ s[1] \in chars THEN LStrip(Tail(s), chars) ELSE s

RECURSIVE RStrip(_, _)
RStrip(s, chars) ==
    IF s # << >> /\ s[Len(s)] \in chars
    THEN RStrip(UpTo(s, Len(s) - 1), chars) ELSE s

\* str.strip(chars) strips both ends
Strip(s, chars) == RStrip(LStrip(s, chars), chars)

\* decode_bytearr(bytearr): bytearr is [str |-> BOOLEAN, v |-> sequence]
decode_bytearr(bytearr) ==
    IF bytearr.str THEN bytearr.v
    ELSE Strip(Utf8Ignore(StripIllegal(bytearr.v)), {CR, LF})

\* _field_casts.get(field, int)(token), ValueError falling back to the token
CastField(field, tok) ==
    LET cast == IF field \in DOMAIN field_casts THEN field_casts[field] ELSE "int"
    IN  CASE cast = "str" -> << TStr >> \o tok
          [] cast = "float" ->
                IF FloatOk(tok) THEN << TFloat >> \o FloatVal(tok)
                ELSE << TStr >> \o tok
          [] OTHER ->
                IF IntOk(tok) THEN << TInt, IntVal(tok) >>
                ELSE << TStr >> \o tok

\* mutant of extract_airborne_fields: every field of the map is kept, and
\* datetime only when it is wanted
extract_airborne_fields_unfiltered(data, fields) ==
    LET toks == Split(data, COMMA)
        n == Len(toks)
    IN  IF ~(n = Len(airborne_fieldmap) + 2) THEN None
        ELSE
          LET secTok == toks[n]
              weekTok == toks[n - 1]
          IN  IF ~(FloatOk(secTok) /\ IntOk(weekTok)) THEN None
              ELSE
                LET dt == convert_gps_time(IntVal(weekTok), FloatVal(secTok))
                    wanted == 1 .. Len(airborne_fieldmap)
                    keys == {airborne_fieldmap[i] : i \in wanted}
                               \cup ({"datetime"} \cap fields)
                    idx(k) == CHOOSE i \in wanted : airborne_fieldmap[i] = k
                IN  Some([k \in keys |->
                            IF k = "datetime" THEN << TFloat >> \o dt
                            ELSE CastField(k, toks[idx(k)])])

\* _extract_airborne_fields(data, fields): None, or Some(dict), the dict a
\* function from its keys to tagged values
extract_airborne_fields(data, fields) ==
    LET toks == Split(data, COMMA)
        n == Len(toks)
    IN  IF ~(n = Len(airborne_fieldmap) + 2) THEN None
        ELSE
          LET secTok == toks[n]
              weekTok == toks[n - 1]
          IN  IF ~(FloatOk(secTok) /\ IntOk(weekTok)) THEN None
              ELSE
                LET dt == convert_gps_time(IntVal(weekTok), FloatVal(secTok))
                    wanted == {i \in 1 .. Len(airborne_fieldmap) :
                                  airborne_fieldmap[i] \in fields}
                    keys == {airborne_fieldmap[i] : i \in wanted} \cup {"datetime"}
                    idx(k) == CHOOSE i \in wanted : airborne_fieldmap[i] = k
                IN  Some([k \in keys |->
                            IF k = "datetime" THEN << TFloat >> \o dt
                            ELSE CastField(k, toks[idx(k)])])


\* mutant of get_extractor: a failed extraction yields an empty reading
get_extractor_never_none(stype, data, wanted_fields) ==
    IF extract_airborne_fields(data, wanted_fields) = None
    THEN Some([k \in {"datetime"} |-> << TFloat, 0 >>])
    ELSE extract_airborne_fields(data, wanted_fields)

\* get_extractor(sensor_type): every sensor type but AT1M selects the airborne
\* layout; the instrument of the model is never an AT1M
get_extractor(stype, data, wanted_fields) ==
    extract_airborne_fields(data, wanted_fields)

(***************************************************************************)
(* client.py: constants and pure pieces                                    *)
(***************************************************************************)
\* HTTPSender.fields
fields == {"gravity", "long_acc", "cross_acc", "beam", "pressure",
           "e_temperature", "s_temperature", "latitude", "longitude",
           "datetime"}

\* HTTPSender.run: batch = 10
batch == 10

\* SerialListener.readline: the largest chunk asked of the device
MaxChunk == 2048

sensor_type == "AT1A"

\* sensor ids the collector may hand out
SensorIDs == {7, 8}

\* mutant of collect_uri: the id left out of the path
collect_uri_no_id(sid) == << "collect", 0 >>

\* urljoin(host, f'/collect/{sensor_id}')
collect_uri(sid) == << "collect", sid >>

\* urljoin(host, f'/sensor/{sensor_type}/{sensor_name}')
sensor_uri == << "sensor", sensor_type >>

\* Queue.put_nowait(line) on the unbounded queue
queue_put(q, line) == Append(q, line)

\* mutant of queue_head: the newest item handed out
queue_head_newest(q) == q[Len(q)]

\* Queue.get(): the item handed out, and the queue left behind
queue_head(q) == Head(q)

queue_rest(q) == Tail(q)

\* mutant of batch_insert: the reading appended instead of prepended
batch_insert_append(b, data) == b \o << data >>

\* mutant of batch_insert: the reading inserted behind the newest one
batch_insert_second(b, data) ==
    IF b = << >> THEN << data >> ELSE << Head(b), data >> \o Tail(b)

\* batch_queue.insert(0, data)
batch_insert(b, data) == << data >> \o b

\* mutant of batch_full: the threshold off by one
batch_full_early(b) == ~(Len(b) < batch - 1)

\* not (len(batch_queue) < batch)
batch_full(b) == ~(Len(b) < batch)

\* {'data': batch_queue, 'length': len(batch_queue)}
make_payload(b) == [data |-> b, length |-> Len(b)]

(***************************************************************************)
(* What the collector may answer.  A response is a record: conn (FALSE: a  *)
(* ConnectionError is raised), status_code, json ("invalid": json() raises *)
(* JSONDecodeError; "array": a JSON value that is no object; "object"),    *)
(* and the members of an object body as optional values.                   *)
(***************************************************************************)
NoResp == [conn |-> FALSE, status_code |-> 0, json |-> "invalid",
           Status |-> None, Exists |-> None, SensorID |-> None]

PostResponses ==
    {NoResp}
    \cup {[NoResp EXCEPT !.conn = TRUE, !.status_code = 200, !.json = j] :
            j \in {"invalid", "array"}}
    \cup {[NoResp EXCEPT !.conn = TRUE, !.status_code = 200, !.json = "object",
                         !.Status = st] :
            st \in {None, Some("OK"), Some("ERROR")}}

SensorResponses ==
    {NoResp}
    \cup {[NoResp EXCEPT !.conn = TRUE, !.status_code = c, !.json = j] :
            c \in {200, 500}, j \in {"invalid", "array"}}
    \cup {[NoResp EXCEPT !.conn = TRUE, !.status_code = c, !.json = "object",
                         !.Exists = e, !.SensorID = s] :
            c \in {200, 500}, e \in {None, Some(TRUE), Some(FALSE)},
            s \in {None} \cup {Some(i) : i \in SensorIDs}}

\* HTTPSender._send_line(line_json): the value it returns for a response, as
\* [obj |-> is a dict, Status |-> optional member]
send_line(resp) ==
    IF ~resp.conn THEN [obj |-> TRUE, Status |-> Some("FAIL")]
    ELSE IF resp.json = "invalid" THEN [obj |-> TRUE, Status |-> Some("FAIL")]
    ELSE IF resp.json = "array" THEN [obj |-> FALSE, Status |-> None]
    ELSE [obj |-> TRUE, Status |-> resp.Status]

\* result.get('Status', 'FAIL') == 'OK'
status_ok(result) ==
    (IF result.Status = None THEN "FAIL" ELSE result.Status[1]) = "OK"

\* mutant of batch_after: the batch cleared whatever the result
batch_after_always_clear(b, result) == << >>

\* mutant of batch_after: a failed batch capped below the threshold
batch_after_capped(b, result) ==
    IF status_ok(result) THEN << >> ELSE SubSeq(b, 1, batch - 1)

\* mutant of batch_after: the newest reading survives the clearing
batch_after_keep_newest(b, result) ==
    IF status_ok(result) THEN SubSeq(b, 1, 1) ELSE b

\* lines 165-167: the batch after the result of a send, cleared on OK and
\* kept otherwise
batch_after(b, result) == IF status_ok(result) THEN << >> ELSE b

(***************************************************************************)
(* The instrument's lines.  The k-th well-formed line has the 11 airborne   *)
(* fields, gpsweek 2 and gpsweekseconds k; a short line has two tokens.    *)
(* On the wire a line ends with CR LF.  The other malformed lines have 13  *)
(* tokens: a gpsweekseconds token that is no number, a gpsweek token that  *)
(* is no integer, an empty last token.                                     *)
(***************************************************************************)
Digits(k) ==
    IF k < 10 THEN << DIGIT0 + k >>
    ELSE << DIGIT0 + (k \div 10), DIGIT0 + (k % 10) >>

RECURSIVE Ones(_)
Ones(n) == IF n = 0 THEN << >> ELSE << COMMA, DIGIT0 + 1 >> \o Ones(n - 1)

GoodText(k) ==
    << DOLLAR >> \o Ones(Len(airborne_fieldmap) - 1)
                 \o << COMMA, DIGIT0 + 2, COMMA >> \o Digits(k)

ShortText == << DOLLAR, COMMA, DIGIT0 >>

BadSecondsText ==
    << DOLLAR >> \o Ones(Len(airborne_fieldmap) - 1)
                 \o << COMMA, DIGIT0 + 2, COMMA, DOLLAR >>

BadWeekText ==
    << DOLLAR >> \o Ones(Len(airborne_fieldmap) - 1)
                 \o << COMMA, DIGIT0 + 2, DOT, DIGIT0 + 5, COMMA, DIGIT0 + 1 >>

MissingText ==
    << DOLLAR >> \o Ones(Len(airborne_fieldmap) - 1)
                 \o << COMMA, DIGIT0 + 2, COMMA >>

BadTexts == {ShortText, BadSecondsText, BadWeekText, MissingText}

\* a 13-token line: header, a gravity token, nine more fields, gpsweek and
\* gpsweekseconds
Line13(gravTok, weekTok, secTok) ==
    << DOLLAR, COMMA >> \o gravTok \o Ones(Len(airborne_fieldmap) - 2)
        \o << COMMA >> \o weekTok \o << COMMA >> \o secTok

Week2000 == << DIGIT0 + 2, DIGIT0, DIGIT0, DIGIT0 >>

\* the lines and the wanted-field sets given to the extractor called on its
\* own: gravity tokens that are and are not an int, two weeks, seconds with
\* and without a fraction and one that is no number, and a short line
ExtractLines ==
    {Line13(g, w, x) : g \in {<< DIGIT0 + 1 >>, << DOLLAR >>},
                       w \in {<< DIGIT0 + 2 >>, Week2000},
                       x \in {<< DIGIT0 >>, << DIGIT0 + 7 >>,
                              << DIGIT0, DOT, DIGIT0 + 5 >>, << DOLLAR >>}}
    \cup {ShortText}

WantedFields == SUBSET {"header", "gravity", "latitude", "datetime", "speed"}

RawLine(text) == text \o << CR, LF >>

Last(sq) == sq[Len(sq)]

Min(a, b) == IF a < b THEN a ELSE b

Max(a, b) == IF a > b THEN a ELSE b


(***************************************************************************)
(* State                                                                   *)
(***************************************************************************)
VARIABLES
    mpc,          \* where the main thread (run_client) is
    exc,          \* the exception that left run_client, "" when none
    retcode,      \* run_client's return value, None until it returns
    sensor_id,    \* run_client's sensor_id, None or Some(id)
    call,         \* the establish_connection call in progress
    handle,       \* SerialListener._handle is open
    exiting,      \* the shared Event
    interrupted,  \* the operator's interrupt was delivered
    pending,      \* bytes the device has delivered and nobody has read
    emitted,      \* well-formed lines produced so far
    nbad,         \* malformed lines produced so far
    buffer,       \* SerialListener._buffer
    chunk,        \* readline's i, the size asked of the device
    line,         \* what readline returned, None when nothing is held
    queue,        \* the shared Queue
    tracing,      \* the queue's traffic is recorded in enq and deq
    enq,          \* history: the lines put on the queue, in order
    deq,          \* history: the lines taken off the queue, in order
    spc,          \* where the HTTPSender thread is
    uri,          \* HTTPSender._uri, None until constructed
    batch_queue,  \* HTTPSender.run's batch_queue
    posts,        \* history: the POSTs issued since the last acknowledged
                  \* one, that one included, each with its response
    nposts,       \* history: the number of POSTs issued
    nfailed,      \* history: the number of POSTs not acknowledged
    rx,           \* history: the bytes read from the device, in order
    out,          \* history: the values readline returned, concatenated
    extracted,    \* history: the readings extracted by the sender, in order
    acked,        \* history: how many readings had been extracted when a
                  \* POST was last answered with Status "OK"
    late,         \* history: the POSTs sent while the exit signal was set
    xdata,        \* the line given to the extractor called on its own
    xfields,      \* the wanted fields given to it
    xresult       \* None before the call, Some(what it returned) after

vars == << mpc, exc, retcode, sensor_id, call, handle, exiting, interrupted,
           pending, emitted, nbad, buffer, chunk, line, queue, tracing, enq,
           deq, spc, uri, batch_queue, posts, nposts, nfailed, rx, out,
           extracted, acked, late, xdata, xfields, xresult >>

mainVars == << mpc, exc, retcode, sensor_id, call, handle, interrupted >>

listenerVars == << buffer, chunk, line, rx, out >>

deviceVars == << pending, emitted, nbad >>

senderVars == << spc, uri, batch_queue, posts, nposts, nfailed, extracted,
                acked, late >>

queueVars == << queue, tracing, enq, deq >>

extractVars == << xdata, xfields, xresult >>

\* get, put: the responses received; nput: the PUTs issued; put_uri: where
\* the PUT went; ret: Some(value returned) once the call has returned
NoCall == [get |-> None, put |-> None, nput |-> 0, put_uri |-> None, ret |-> None]

\* the positions of run_client inside its try block (client.py 238-240)
TryPcs == {"start", "open", "listen", "rl_test", "rl_inw", "rl_read", "put"}

\* the positions inside SerialListener.listen once the port is open
ListenPcs == {"listen", "rl_test", "rl_inw", "rl_read", "put"}

MainEnded == {"returned", "raised"}

Init ==
    /\ mpc = "establish"
    /\ exc = ""
    /\ retcode = None
    /\ sensor_id = None
    /\ call = NoCall
    /\ handle = FALSE
    /\ exiting = FALSE
    /\ interrupted = FALSE
    /\ pending = << >>
    /\ emitted = 0
    /\ nbad = 0
    /\ buffer = << >>
    /\ chunk = 0
    /\ line = None
    /\ queue = << >>
    /\ tracing = TRUE
    /\ enq = << >>
    /\ deq = << >>
    /\ spc = "unstarted"
    /\ uri = None
    /\ batch_queue = << >>
    /\ posts = << >>
    /\ nposts = 0
    /\ nfailed = 0
    /\ rx = << >>
    /\ out = << >>
    /\ extracted = << >>
    /\ acked = 0
    /\ late = 0
    /\ xdata = << >>
    /\ xfields = {}
    /\ xresult = None


(***************************************************************************)
(* establish_connection (client.py 186-217)                                *)
(***************************************************************************)
Returns(v) == [kind |-> "return", val |-> v, exc |-> ""]

Raises(e) == [kind |-> "raise", val |-> None, exc |-> e]

Registers == [kind |-> "put", val |-> None, exc |-> ""]

\* mutant of ec_lookup: the sensor is registered whatever Exists says
ec_lookup_always_register(r) ==
    IF ~r.conn THEN Returns(None)
    ELSE IF r.json = "invalid" THEN Returns(None)
    ELSE IF r.status_code # 200 THEN Returns(None)
    ELSE IF r.json = "array" THEN Raises("TypeError")
    ELSE IF r.Exists = None THEN Raises("KeyError")
    ELSE Registers

\* mutant of ec_lookup: the status code is not looked at
ec_lookup_any_status(r) ==
    IF ~r.conn THEN Returns(None)
    ELSE IF r.json = "invalid" THEN Returns(None)
    ELSE IF r.json = "array" THEN Raises("TypeError")
    ELSE IF r.Exists = None THEN Raises("KeyError")
    ELSE IF r.Exists[1] THEN Returns(r.SensorID)
    ELSE Registers

\* lines 189-206: what the lookup (GET) response leads to
ec_lookup(r) ==
    IF ~r.conn THEN Returns(None)
    ELSE IF r.json = "invalid" THEN Returns(None)
    ELSE IF r.status_code # 200 THEN Returns(None)
    ELSE IF r.json = "array" THEN Raises("TypeError")
    ELSE IF r.Exists = None THEN Raises("KeyError")
    ELSE IF r.Exists[1] THEN Returns(r.SensorID)
    ELSE Registers

\* lines 208-217: what the registration (PUT) response leads to
ec_register(r) ==
    IF ~r.conn THEN Returns(None)
    ELSE IF r.json = "invalid" THEN Returns(None)
    ELSE IF r.json = "array" THEN Raises("AttributeError")
    ELSE Returns(r.SensorID)

\* session.get(uri) and what follows up to the return or the PUT
EstablishGet ==
    /\ mpc = "establish"
    /\ \E r \in SensorResponses :
         LET o == ec_lookup(r)
         IN  /\ call' = [NoCall EXCEPT !.get = Some(r),
                           !.ret = IF o.kind = "return" THEN Some(o.val) ELSE None]
             /\ mpc' = CASE o.kind = "return" -> "est_ret"
                         [] o.kind = "put" -> "est_put"
                         [] OTHER -> "raised"
             /\ exc' = o.exc
    /\ UNCHANGED << retcode, sensor_id, handle, interrupted, exiting >>
    /\ UNCHANGED << listenerVars, deviceVars, senderVars, queueVars >>
    /\ UNCHANGED extractVars

\* session.put(uri, json={}) and what follows up to the return
EstablishPut ==
    /\ mpc = "est_put"
    /\ \E r \in SensorResponses :
         LET o == ec_register(r)
         IN  /\ call' = [call EXCEPT !.put = Some(r),
                           !.nput = @ + 1, !.put_uri = Some(sensor_uri),
                           !.ret = IF o.kind = "return" THEN Some(o.val) ELSE None]
             /\ mpc' = IF o.kind = "return" THEN "est_ret" ELSE "raised"
             /\ exc' = o.exc
    /\ UNCHANGED << retcode, sensor_id, handle, interrupted, exiting >>
    /\ UNCHANGED << listenerVars, deviceVars, senderVars, queueVars >>
    /\ UNCHANGED extractVars

(***************************************************************************)
(* run_client (client.py 220-246)                                          *)
(***************************************************************************)
\* line 232, the assignment, and line 230, the loop test
AssignSensorId ==
    /\ mpc = "est_ret"
    /\ sensor_id' = call.ret[1]
    /\ call' = NoCall
    /\ mpc' = IF call.ret[1] = None THEN "establish" ELSE "construct"
    /\ UNCHANGED << exc, retcode, handle, interrupted, exiting >>
    /\ UNCHANGED << listenerVars, deviceVars, senderVars, queueVars >>
    /\ UNCHANGED extractVars

\* lines 234-236 with HTTPSender.__init__ (112-120)
Construct ==
    /\ mpc = "construct"
    /\ uri' = Some(collect_uri(sensor_id[1]))
    /\ mpc' = "start"
    /\ UNCHANGED << exc, retcode, sensor_id, call, handle, interrupted, exiting >>
    /\ UNCHANGED << spc, batch_queue, posts, nposts, nfailed >>
    /\ UNCHANGED << extracted, acked, late >>
    /\ UNCHANGED << listenerVars, deviceVars, queueVars >>
    /\ UNCHANGED extractVars

\* line 239: http_sender.start()
StartSender ==
    /\ mpc = "start"
    /\ spc' = "top"
    /\ mpc' = "open"
    /\ UNCHANGED << exc, retcode, sensor_id, call, handle, interrupted, exiting >>
    /\ UNCHANGED << uri, batch_queue, posts, nposts, nfailed >>
    /\ UNCHANGED << extracted, acked, late >>
    /\ UNCHANGED << listenerVars, deviceVars, queueVars >>
    /\ UNCHANGED extractVars

\* lines 84-85: listen opens the port, or serial.Serial raises
OpenPort ==
    /\ mpc = "open"
    /\ \/ /\ handle' = TRUE
          /\ mpc' = "listen"
          /\ exc' = exc
       \/ /\ handle' = handle
          /\ mpc' = "raised"
          /\ exc' = "SerialException"
    /\ UNCHANGED << retcode, sensor_id, call, interrupted, exiting >>
    /\ UNCHANGED << listenerVars, deviceVars, senderVars, queueVars >>
    /\ UNCHANGED extractVars

\* The operator's interrupt reaches the main thread: inside the try block
\* control passes to the handler (241), elsewhere it leaves run_client
KeyboardInterrupt ==
    /\ ~interrupted
    /\ mpc \notin MainEnded
    /\ interrupted' = TRUE
    /\ IF mpc \in TryPcs
       THEN mpc' = "handler" /\ exc' = exc
       ELSE mpc' = "raised" /\ exc' = "KeyboardInterrupt"
    /\ UNCHANGED << retcode, sensor_id, call, handle, exiting >>
    /\ UNCHANGED << listenerVars, deviceVars, senderVars, queueVars >>
    /\ UNCHANGED extractVars

\* mutant of HandlerExit: the signal is set and listen() is resumed
HandlerExit_resumes ==
    /\ mpc = "handler"
    /\ exiting' = TRUE
    /\ mpc' = IF handle THEN "listen" ELSE "join"
    /\ UNCHANGED << exc, retcode, sensor_id, call, handle, interrupted >>
    /\ UNCHANGED << listenerVars, deviceVars, senderVars, queueVars >>
    /\ UNCHANGED extractVars

\* line 243: http_sender.exit()
HandlerExit ==
    /\ mpc = "handler"
    /\ exiting' = TRUE
    /\ mpc' = "join"
    /\ UNCHANGED << exc, retcode, sensor_id, call, handle, interrupted >>
    /\ UNCHANGED << listenerVars, deviceVars, senderVars, queueVars >>
    /\ UNCHANGED extractVars

\* lines 244-245: join(timeout=5) returns when the thread has ended or the
\* time is up, and raises RuntimeError on a thread that was never started
HandlerJoin ==
    /\ mpc = "join"
    /\ IF spc = "unstarted"
       THEN mpc' = "raised" /\ exc' = "RuntimeError" /\ retcode' = retcode
       ELSE mpc' = "returned" /\ exc' = exc /\ retcode' = Some(0)
    /\ UNCHANGED << sensor_id, call, handle, interrupted, exiting >>
    /\ UNCHANGED << listenerVars, deviceVars, senderVars, queueVars >>
    /\ UNCHANGED extractVars


(***************************************************************************)
(* The instrument and the serial port                                      *)
(***************************************************************************)
\* the instrument emits its next line into the open port
DeviceEmit ==
    /\ handle
    /\ mpc \in ListenPcs
    /\ emitted < MaxLines
    /\ emitted - Len(deq) < MaxInFlight
    /\ pending' = pending \o RawLine(GoodText(emitted + 1))
    /\ emitted' = emitted + 1
    /\ nbad' = nbad
    /\ UNCHANGED << mainVars, exiting, listenerVars, senderVars, queueVars >>
    /\ UNCHANGED extractVars

(***************************************************************************)
(* SerialListener (client.py 53-90)                                        *)
(***************************************************************************)
Bytes(v) == [str |-> FALSE, v |-> v]

Str(v) == [str |-> TRUE, v |-> v]

\* line 86, the loop test of listen, and on entering readline lines 63-67:
\* a line already in the buffer is returned
ListenTest ==
    /\ mpc = "listen"
    /\ IF exiting
       THEN /\ mpc' = "returned"
            /\ retcode' = Some(1)
            /\ UNCHANGED << buffer, line, out >>
       ELSE /\ retcode' = retcode
            /\ LET i == Find(buffer, LF)
               IN  IF i >= 0
                   THEN /\ line' = Some(Bytes(UpTo(buffer, i + 1)))
                        /\ buffer' = From(buffer, i + 1)
                        /\ out' = out \o UpTo(buffer, i + 1)
                        /\ mpc' = "put"
                   ELSE /\ mpc' = "rl_test"
                        /\ UNCHANGED << buffer, line, out >>
    /\ UNCHANGED << exc, sensor_id, call, handle, interrupted, exiting, chunk >>
    /\ rx' = rx
    /\ UNCHANGED << deviceVars, senderVars, queueVars >>
    /\ UNCHANGED extractVars

\* line 68, the loop test of readline; line 80 when the signal is set
ReadlineTest ==
    /\ mpc = "rl_test"
    /\ IF exiting
       THEN line' = Some(Bytes(<< >>)) /\ mpc' = "put"
       ELSE line' = line /\ mpc' = "rl_inw"
    /\ UNCHANGED << exc, retcode, sensor_id, call, handle, interrupted, exiting >>
    /\ UNCHANGED << buffer, chunk, rx, out >>
    /\ UNCHANGED << deviceVars, senderVars, queueVars >>
    /\ UNCHANGED extractVars

\* line 69: i = max(1, min(2048, self._handle.in_waiting))
ReadlineInWaiting ==
    /\ mpc = "rl_inw"
    /\ chunk' = Max(1, Min(MaxChunk, Len(pending)))
    /\ mpc' = "rl_read"
    /\ UNCHANGED << exc, retcode, sensor_id, call, handle, interrupted, exiting >>
    /\ UNCHANGED << buffer, line, rx, out >>
    /\ UNCHANGED << deviceVars, senderVars, queueVars >>
    /\ UNCHANGED extractVars

\* lines 70-72: the read times out with no byte
ReadTimeout ==
    /\ mpc = "rl_read"
    /\ pending = << >>
    /\ line' = Some(Str(<< >>))
    /\ mpc' = "put"
    /\ UNCHANGED << exc, retcode, sensor_id, call, handle, interrupted, exiting >>
    /\ UNCHANGED << buffer, chunk, rx, out >>
    /\ UNCHANGED << deviceVars, senderVars, queueVars >>
    /\ UNCHANGED extractVars

\* lines 70, 73-79: the read returns data
ReadData ==
    /\ mpc = "rl_read"
    /\ pending # << >>
    /\ LET data == UpTo(pending, Min(chunk, Len(pending)))
           i == Find(data, LF)
       IN  /\ pending' = From(pending, Len(data))
           /\ rx' = rx \o data
           /\ IF i >= 0
              THEN /\ line' = Some(Bytes(buffer \o UpTo(data, i + 1)))
                   /\ buffer' = From(data, i + 1)
                   /\ out' = out \o buffer \o UpTo(data, i + 1)
                   /\ mpc' = "put"
              ELSE /\ buffer' = buffer \o data
                   /\ line' = line
                   /\ out' = out
                   /\ mpc' = "rl_test"
    /\ UNCHANGED << exc, retcode, sensor_id, call, handle, interrupted, exiting >>
    /\ UNCHANGED << chunk, emitted, nbad >>
    /\ UNCHANGED << senderVars, queueVars >>
    /\ UNCHANGED extractVars

\* mutant of ListenPut: whatever was decoded is enqueued
ListenPut_enqueues_all ==
    /\ mpc = "put"
    /\ queue' = queue_put(queue, decode_bytearr(line[1]))
    /\ enq' = IF tracing THEN Append(enq, decode_bytearr(line[1])) ELSE enq
    /\ line' = None
    /\ mpc' = "listen"
    /\ UNCHANGED << exc, retcode, sensor_id, call, handle, interrupted, exiting >>
    /\ UNCHANGED << buffer, chunk, deq, tracing, rx, out >>
    /\ UNCHANGED << deviceVars, senderVars >>
    /\ UNCHANGED extractVars

\* lines 87-90: decode what readline returned and enqueue it unless empty
ListenPut ==
    /\ mpc = "put"
    /\ LET decoded == decode_bytearr(line[1])
       IN  IF decoded = << >>
           THEN UNCHANGED << queue, enq >>
           ELSE /\ queue' = queue_put(queue, decoded)
                /\ enq' = IF tracing THEN Append(enq, decoded) ELSE enq
    /\ line' = None
    /\ mpc' = "listen"
    /\ UNCHANGED << exc, retcode, sensor_id, call, handle, interrupted, exiting >>
    /\ UNCHANGED << buffer, chunk, deq, tracing, rx, out >>
    /\ UNCHANGED << deviceVars, senderVars >>
    /\ UNCHANGED extractVars

(***************************************************************************)
(* HTTPSender.run (client.py 135-174)                                      *)
(***************************************************************************)
\* mutant of SenderTest: the signal is heeded only once the queue is empty
SenderTest_drains ==
    /\ spc = "top"
    /\ spc' = IF exiting /\ queue = << >> THEN "finished" ELSE "get"
    /\ UNCHANGED << mainVars, exiting, uri, batch_queue, posts, nposts, nfailed >>
    /\ UNCHANGED << extracted, acked, late >>
    /\ UNCHANGED << listenerVars, deviceVars, queueVars >>
    /\ UNCHANGED extractVars

\* line 140: the loop test
SenderTest ==
    /\ spc = "top"
    /\ spc' = IF exiting THEN "finished" ELSE "get"
    /\ UNCHANGED << mainVars, exiting, uri, batch_queue, posts, nposts, nfailed >>
    /\ UNCHANGED << extracted, acked, late >>
    /\ UNCHANGED << listenerVars, deviceVars, queueVars >>
    /\ UNCHANGED extractVars

\* lines 142-145: nothing arrives within the timeout
SenderEmpty ==
    /\ spc = "get"
    /\ queue = << >>
    /\ spc' = "top"
    /\ UNCHANGED << mainVars, exiting, uri, batch_queue, posts, nposts, nfailed >>
    /\ UNCHANGED << extracted, acked, late >>
    /\ UNCHANGED << listenerVars, deviceVars, queueVars >>
    /\ UNCHANGED extractVars

\* the response is a JSON object whose Status is "OK"
Acknowledged(p) ==
    /\ p.resp # None
    /\ p.resp[1].conn
    /\ p.resp[1].json = "object"
    /\ p.resp[1].Status = Some("OK")

\* the history a new POST is added to: the POSTs before the last
\* acknowledged one are dropped
Recent(ps) ==
    IF ps # << >> /\ Acknowledged(ps[Len(ps)]) THEN << ps[Len(ps)] >> ELSE ps

\* lines 142, 147-158: a line is dequeued, extracted and prepended; a full
\* batch becomes the payload of a POST
SenderGet ==
    /\ spc = "get"
    /\ queue # << >>
    /\ LET ln == queue_head(queue)
           data == get_extractor(sensor_type, ln, fields)
           grown == batch_insert(batch_queue, data[1])
       IN  /\ queue' = queue_rest(queue)
           /\ deq' = IF tracing THEN Append(deq, ln) ELSE deq
           /\ IF data = None
              THEN /\ spc' = "top"
                   /\ UNCHANGED << batch_queue, posts, nposts, extracted >>
              ELSE /\ batch_queue' = grown
                   /\ extracted' = Append(extracted, data[1])
                   /\ IF batch_full(grown)
                      THEN /\ spc' = "post"
                           /\ posts' = Append(Recent(posts),
                                 [uri |-> uri[1], payload |-> make_payload(grown),
                                  resp |-> None])
                           /\ nposts' = nposts + 1
                      ELSE /\ spc' = "top"
                           /\ UNCHANGED << posts, nposts >>
    /\ UNCHANGED << mainVars, exiting, uri, nfailed, enq, tracing >>
    /\ UNCHANGED << acked, late >>
    /\ UNCHANGED << listenerVars, deviceVars >>
    /\ UNCHANGED extractVars

\* lines 127-133 and 160-172: the collector's answer to the POST; a result
\* that is no dict has no get and ends the thread with AttributeError
SenderPost ==
    /\ spc = "post"
    /\ \E r \in PostResponses :
         LET result == send_line(r)
             answered == [posts EXCEPT ![Len(posts)].resp = Some(r)]
         IN  /\ posts' = answered
             /\ IF Acknowledged(Last(answered))
                THEN nfailed' = nfailed
                ELSE nfailed < MaxFail /\ nfailed' = nfailed + 1
             /\ IF ~result.obj
                THEN spc' = "crashed" /\ batch_queue' = batch_queue
                ELSE spc' = "top" /\ batch_queue' = batch_after(batch_queue, result)
             /\ acked' = IF Acknowledged(Last(answered))
                         THEN Len(extracted) ELSE acked
    /\ late' = IF exiting THEN late + 1 ELSE late
    /\ UNCHANGED << mainVars, exiting, uri, nposts, extracted >>
    /\ UNCHANGED << listenerVars, deviceVars, queueVars >>
    /\ UNCHANGED extractVars

(***************************************************************************)
(* The program                                                             *)
(***************************************************************************)
Next ==
    \/ EstablishGet
    \/ EstablishPut
    \/ AssignSensorId
    \/ Construct
    \/ StartSender
    \/ OpenPort
    \/ KeyboardInterrupt
    \/ HandlerExit
    \/ HandlerJoin
    \/ DeviceEmit
    \/ ListenTest
    \/ ReadlineTest
    \/ ReadlineInWaiting
    \/ ReadTimeout
    \/ ReadData
    \/ ListenPut
    \/ SenderTest
    \/ SenderEmpty
    \/ SenderGet
    \/ SenderPost

Spec == Init /\ [][Next]_vars

(***************************************************************************)
(* The program with its exit signal also set from outside: another thread  *)
(* calls SerialListener.exit() (client.py 42-43) while listen() runs.      *)
(* Every step of a running thread is eventually taken: a device read ends  *)
(* with data or at its timeout, the queue wait ends with an item or at its *)
(* timeout, and every HTTP call returns.                                   *)
(***************************************************************************)
ExternalExit ==
    /\ mpc \in ListenPcs
    /\ ~exiting
    /\ exiting' = TRUE
    /\ UNCHANGED << mainVars, listenerVars, deviceVars, senderVars, queueVars >>
    /\ UNCHANGED extractVars

MainStep ==
    \/ EstablishGet
    \/ EstablishPut
    \/ AssignSensorId
    \/ Construct
    \/ StartSender
    \/ OpenPort
    \/ HandlerExit
    \/ HandlerJoin
    \/ ListenTest
    \/ ReadlineTest
    \/ ReadlineInWaiting
    \/ ReadTimeout
    \/ ReadData
    \/ ListenPut

SenderStep ==
    \/ SenderTest
    \/ SenderEmpty
    \/ SenderGet
    \/ SenderPost

LibNext ==
    \/ MainStep
    \/ SenderStep
    \/ KeyboardInterrupt
    \/ DeviceEmit
    \/ ExternalExit

\* the sender thread is inside run(): started, neither finished nor crashed
SenderAlive == spc \in {"top", "get", "post"}

\* a step of the running sender thread, told by its position alone: every
\* action of SenderStep moves spc, nothing else moves it while the thread
\* runs, and one of them is enabled at each of the three positions
SenderAdvances ==
    /\ SenderAlive
    /\ \E p \in {"top", "get", "post", "finished", "crashed"} :
         p # spc /\ spc' = p

FairLibSpec ==
    /\ Init
    /\ [][LibNext]_vars
    /\ WF_vars(MainStep)
    /\ WF_spc(SenderAdvances)

(***************************************************************************)
(* The HTTPSender thread on its own: constructed and started by a caller   *)
(* that puts decoded lines on its queue and may call HTTPSender.exit().    *)
(***************************************************************************)
InitSender ==
    /\ mpc = "caller"
    /\ exc = ""
    /\ retcode = None
    /\ \E sid \in SensorIDs :
         /\ sensor_id = Some(sid)
         /\ uri = Some(collect_uri(sid))
    /\ call = NoCall
    /\ handle = FALSE
    /\ exiting = FALSE
    /\ interrupted = FALSE
    /\ pending = << >>
    /\ emitted = 0
    /\ nbad = 0
    /\ buffer = << >>
    /\ chunk = 0
    /\ line = None
    /\ queue = << >>
    /\ tracing = FALSE
    /\ enq = << >>
    /\ deq = << >>
    /\ spc = "top"
    /\ batch_queue = << >>
    /\ posts = << >>
    /\ nposts = 0
    /\ nfailed = 0
    /\ rx = << >>
    /\ out = << >>
    /\ extracted = << >>
    /\ acked = 0
    /\ late = 0
    /\ xdata = << >>
    /\ xfields = {}
    /\ xresult = None

\* the caller puts the next well-formed line on the queue
FeedGood ==
    /\ mpc = "caller"
    /\ SenderAlive
    /\ Len(queue) < MaxQueued
    /\ emitted < MaxFeed
    /\ queue' = queue_put(queue, GoodText(emitted + 1))
    /\ emitted' = emitted + 1
    /\ UNCHANGED << mainVars, exiting, listenerVars, senderVars >>
    /\ UNCHANGED << pending, nbad, tracing, enq, deq >>
    /\ UNCHANGED extractVars

\* the caller puts a malformed line on the queue
FeedBad ==
    /\ mpc = "caller"
    /\ SenderAlive
    /\ Len(queue) < MaxQueued
    /\ nbad < MaxBad
    /\ \E text \in BadTexts : queue' = queue_put(queue, text)
    /\ nbad' = nbad + 1
    /\ UNCHANGED << mainVars, exiting, listenerVars, senderVars >>
    /\ UNCHANGED << pending, emitted, tracing, enq, deq >>
    /\ UNCHANGED extractVars

\* HTTPSender.exit() (client.py 122-123), called by the caller
SenderExit ==
    /\ mpc = "caller"
    /\ ~exiting
    /\ exiting' = TRUE
    /\ UNCHANGED << mainVars, listenerVars, deviceVars, senderVars, queueVars >>
    /\ UNCHANGED extractVars

NextSender ==
    \/ FeedGood
    \/ FeedBad
    \/ SenderExit
    \/ SenderTest
    \/ SenderEmpty
    \/ SenderGet
    \/ SenderPost

SenderSpec == InitSender /\ [][NextSender]_vars


(***************************************************************************)
(* SerialListener.listen on its own (client.py 53-90): the port is open, *)
(* the device delivers any bytes at any pace, nobody takes items off the   *)
(* queue, and another thread may call SerialListener.exit().               *)
(***************************************************************************)
WireBytes == {LF, CR, DOLLAR, HIGH}

InitListener ==
    /\ mpc = "listen"
    /\ exc = ""
    /\ retcode = None
    /\ sensor_id = None
    /\ call = NoCall
    /\ handle = TRUE
    /\ exiting = FALSE
    /\ interrupted = FALSE
    /\ pending = << >>
    /\ emitted = 0
    /\ nbad = 0
    /\ buffer = << >>
    /\ chunk = 0
    /\ line = None
    /\ queue = << >>
    /\ tracing = TRUE
    /\ enq = << >>
    /\ deq = << >>
    /\ spc = "unstarted"
    /\ uri = None
    /\ batch_queue = << >>
    /\ posts = << >>
    /\ nposts = 0
    /\ nfailed = 0
    /\ rx = << >>
    /\ out = << >>
    /\ extracted = << >>
    /\ acked = 0
    /\ late = 0
    /\ xdata = << >>
    /\ xfields = {}
    /\ xresult = None

\* the device delivers one more byte
DeviceByte ==
    /\ handle
    /\ mpc \in ListenPcs
    /\ Len(rx) + Len(pending) < MaxBytes
    /\ \E b \in WireBytes : pending' = Append(pending, b)
    /\ UNCHANGED << emitted, nbad >>
    /\ UNCHANGED << mainVars, exiting, listenerVars, senderVars, queueVars >>
    /\ UNCHANGED extractVars

NextListener ==
    \/ DeviceByte
    \/ ExternalExit
    \/ ListenTest
    \/ ReadlineTest
    \/ ReadlineInWaiting
    \/ ReadTimeout
    \/ ReadData
    \/ ListenPut

ListenerSpec == InitListener /\ [][NextListener]_vars

(***************************************************************************)
(* The airborne extractor called on its own (helpers.py 94-119, 140-144):  *)
(* a caller obtains it from get_extractor and applies it to a line and a   *)
(* list of wanted fields.                                                  *)
(***************************************************************************)
InitExtract ==
    /\ mpc = "extract"
    /\ exc = ""
    /\ retcode = None
    /\ sensor_id = None
    /\ call = NoCall
    /\ handle = FALSE
    /\ exiting = FALSE
    /\ interrupted = FALSE
    /\ pending = << >>
    /\ emitted = 0
    /\ nbad = 0
    /\ buffer = << >>
    /\ chunk = 0
    /\ line = None
    /\ queue = << >>
    /\ tracing = FALSE
    /\ enq = << >>
    /\ deq = << >>
    /\ spc = "unstarted"
    /\ uri = None
    /\ batch_queue = << >>
    /\ posts = << >>
    /\ nposts = 0
    /\ nfailed = 0
    /\ rx = << >>
    /\ out = << >>
    /\ extracted = << >>
    /\ acked = 0
    /\ late = 0
    /\ xdata \in ExtractLines
    /\ xfields \in WantedFields
    /\ xresult = None

\* extractor = get_extractor(sensor_type); extractor(line, fields)
ExtractCall ==
    /\ mpc = "extract"
    /\ xresult = None
    /\ xresult' = Some(get_extractor(sensor_type, xdata, xfields))
    /\ UNCHANGED << xdata, xfields >>
    /\ UNCHANGED << mainVars, exiting, listenerVars, deviceVars, senderVars >>
    /\ UNCHANGED queueVars

NextExtract == ExtractCall

ExtractSpec == InitExtract /\ [][NextExtract]_vars

(***************************************************************************)
(* Properties                                                              *)
(***************************************************************************)
RECURSIVE Reverse(_)
Reverse(sq) == IF sq = << >> THEN << >> ELSE Reverse(Tail(sq)) \o << Head(sq) >>

\* the reading HTTPSender.run extracts from a dequeued line
Reading(ln) == get_extractor(sensor_type, ln, fields)

Answered(p) == p.resp # None

\* the response is a JSON object whose Status is "OK"
AnsweredOK(p) ==
    /\ Answered(p)
    /\ p.resp[1].conn
    /\ p.resp[1].json = "object"
    /\ p.resp[1].Status = Some("OK")

\* a failed send: no connection, a body that is no JSON, or a JSON object
\* whose Status is not "OK"
AnsweredFail(p) ==
    /\ Answered(p)
    /\ \/ ~p.resp[1].conn
       \/ p.resp[1].json = "invalid"
       \/ p.resp[1].json = "object" /\ p.resp[1].Status # Some("OK")

\* C1: no POST is issued while the batch holds fewer than 10 readings: every
\* payload carries at least 10 readings, the POST that follows an empty batch
\* (the first one ever, or the one after a send answered OK) carries exactly
\* 10, and a batch of 10 or more is never left without having been posted.
C1_PostNeedsFullBatch ==
    /\ \A i \in 1 .. Len(posts) :
         /\ Len(posts[i].payload.data) >= 10
         /\ (IF i = 1 THEN nposts = Len(posts) ELSE AnsweredOK(posts[i - 1]))
            => Len(posts[i].payload.data) = 10
    /\ spc # "post" => \/ Len(batch_queue) < 10
                       \/ /\ posts # << >>
                          /\ Last(posts).payload.data = batch_queue

C1_Witness ==
    /\ Len(posts) = 2
    /\ AnsweredOK(posts[1])
    /\ Len(posts[1].payload.data) = 11
    /\ Len(posts[2].payload.data) = 10

\* C2: the step that receives a Status "OK" answer to a POST leaves the batch
\* empty, and no other step empties a non-empty batch.
C2_ClearedOnlyOnOK ==
    [][ /\ (spc = "post" /\ spc' # "post" /\ AnsweredOK(Last(posts')))
           => batch_queue' = << >>
        /\ (batch_queue # << >> /\ batch_queue' = << >>)
           => (spc = "post" /\ AnsweredOK(Last(posts'))) ]_vars

C2_Witness ==
    /\ Len(posts) = 2
    /\ AnsweredFail(posts[1])
    /\ AnsweredOK(posts[2])
    /\ batch_queue = << >>

\* C3: a failed send leaves the batch equal to the data of the failed
\* payload, and while the last POST is a failed one the next successfully
\* extracted reading is posted at once, its data that reading followed by the
\* whole retained batch.
C3_FailedBatchResent ==
    [][ /\ (spc = "post" /\ spc' # "post" /\ AnsweredFail(Last(posts')))
           => (spc' = "top" /\ batch_queue' = Last(posts).payload.data)
        /\ (/\ posts # << >>
            /\ AnsweredFail(Last(posts))
            /\ spc = "get" /\ spc' # "get"
            /\ queue # << >>
            /\ Reading(Head(queue)) # None)
           => /\ batch_queue = Last(posts).payload.data
              /\ spc' = "post"
              /\ posts' = Append(posts,
                    [uri |-> Last(posts).uri,
                     payload |-> [data |-> << Reading(Head(queue))[1] >>
                                             \o Last(posts).payload.data,
                                  length |-> Last(posts).payload.length + 1],
                     resp |-> None]) ]_vars

C3_Witness ==
    /\ Len(posts) = 3
    /\ AnsweredFail(posts[1])
    /\ AnsweredFail(posts[2])
    /\ Len(posts[3].payload.data) = 12

\* C4: when exactly 10 lines, all well-formed, have been put on the queue and
\* all have been dequeued, exactly one POST has been issued, its data the 10
\* extracted readings in reverse order of dequeue and its length 10; once it
\* is answered OK the batch is empty and the sender is back at its loop
\* (waiting on the queue unless the exit signal ended it).
C4_EndToEnd ==
    (/\ Len(enq) = 10
     /\ \A i \in 1 .. Len(enq) : Reading(enq[i]) # None
     /\ Len(deq) = 10)
    => /\ nposts = 1
       /\ Len(posts) = 1
       /\ posts[1].payload.data = Reverse([i \in 1 .. 10 |-> Reading(deq[i])[1]])
       /\ posts[1].payload.length = 10
       /\ AnsweredOK(posts[1])
          => /\ batch_queue = << >>
             /\ spc \in {"top", "get", "finished"}
             /\ spc = "finished" => exiting

C4_Witness ==
    /\ Len(enq) = 10
    /\ \A i \in 1 .. Len(enq) : Reading(enq[i]) # None
    /\ Len(deq) = 10
    /\ nposts = 1
    /\ AnsweredOK(posts[1])
    /\ spc = "get"
    /\ batch_queue = << >>


\* C5: an interrupt delivered at any point of run_client is caught: once the
\* interrupt has been delivered and run_client has ended, it has returned 0
\* and the exit signal is set.
C5_InterruptCaught ==
    (interrupted /\ mpc \in MainEnded)
    => (mpc = "returned" /\ retcode = Some(0) /\ exiting)

\* C6: once the exit signal is set, a running listen() leaves its loop
\* without an error of its own and a running HTTPSender.run reaches its end
\* (the statement after its loop), given that every read and every HTTP
\* call returns.
C6_CooperativeShutdown ==
    /\ (exiting /\ mpc \in ListenPcs) ~> (mpc \notin ListenPcs /\ mpc # "raised")
    /\ (exiting /\ spc \in {"top", "get", "post"}) ~> (spc = "finished")

\* C7: a lookup answered 200 with Exists true returns the lookup's SensorID
\* and issues no PUT; answered 200 with Exists false it issues exactly one
\* PUT, to the URL of the lookup, and when that PUT is answered with a JSON
\* object the call returns the SensorID of that object.
LookupFound(r) ==
    r.conn /\ r.status_code = 200 /\ r.json = "object" /\ r.Exists = Some(TRUE)

LookupMissing(r) ==
    r.conn /\ r.status_code = 200 /\ r.json = "object" /\ r.Exists = Some(FALSE)

\* the call has run to its end: it returned, or raised an error of its own
CallEnded ==
    /\ call.get # None
    /\ mpc = "est_ret" \/ (mpc = "raised" /\ exc # "KeyboardInterrupt")

C7_LookupOrRegister ==
    CallEnded =>
      /\ LookupFound(call.get[1])
         => (call.nput = 0 /\ call.ret = Some(call.get[1].SensorID))
      /\ LookupMissing(call.get[1])
         => /\ call.nput = 1
            /\ call.put_uri = Some(sensor_uri)
            /\ (call.put[1].conn /\ call.put[1].json = "object")
               => call.ret = Some(call.put[1].SensorID)

C7_Witness ==
    /\ CallEnded
    /\ LookupMissing(call.get[1])
    /\ call.put[1].conn
    /\ call.put[1].json = "object"
    /\ call.ret = Some(Some(8))
    /\ call.get[1].SensorID = Some(7)

\* C8: when the lookup fails to connect, returns a body that is no JSON or
\* has a status other than 200, establish_connection returns None and issues
\* no PUT; when the PUT fails to connect or returns a body that is no JSON it
\* returns None; in none of these cases does it raise.
LookupFailed(r) == ~r.conn \/ r.json = "invalid" \/ r.status_code # 200

RegisterFailed(r) == ~r.conn \/ r.json = "invalid"

C8_FailuresReturnNone ==
    CallEnded =>
      /\ LookupFailed(call.get[1])
         => (call.ret = Some(None) /\ call.nput = 0)
      /\ (call.put # None /\ RegisterFailed(call.put[1]))
         => call.ret = Some(None)

C8_Witness ==
    /\ mpc = "est_ret"
    /\ call.put # None
    /\ RegisterFailed(call.put[1])
    /\ call.ret = Some(None)

\* C9: while the sensor id is absent the port is not open, the sender is not
\* constructed and not started; run_client leaves its retry loop only with a
\* sensor id; the id never changes once set; every POST goes to
\* /collect/{sensor_id} with that id.
C9_OneSensorId ==
    /\ [](sensor_id = None
            => (~handle /\ spc = "unstarted" /\ uri = None /\ posts = << >>))
    /\ [](\A i \in 1 .. Len(posts) : posts[i].uri = << "collect", sensor_id[1] >>)
    /\ [][ /\ sensor_id # None => sensor_id' = sensor_id
           /\ (mpc = "est_ret" /\ call.ret[1] = None)
              => mpc' \in {"establish", "raised"} ]_vars

C9_Witness ==
    /\ sensor_id = Some(8)
    /\ nposts = 2

\* C10: the lines come off the queue in the order they were put on it, each
\* once: the lines put are the lines taken followed by the lines still
\* queued.
C10_Fifo == tracing => enq = deq \o queue

C10_Witness ==
    /\ tracing
    /\ Len(deq) >= 2
    /\ Len(queue) = 2

\* the place of a reading in the order of extraction, which is the order of
\* dequeue of the lines that yield a reading
Pos(r) == CHOOSE j \in 1 .. Len(extracted) : extracted[j] = r

\* C11: in every POST payload the readings are newest first: each is a
\* reading the sender extracted, and of any two the one extracted (dequeued)
\* later is at the lower index, so the newest is at position 0.
C11_NewestFirst ==
    \A p \in 1 .. Len(posts) :
       LET d == posts[p].payload.data
       IN  /\ \A i \in 1 .. Len(d) :
                \E j \in 1 .. Len(extracted) : extracted[j] = d[i]
           /\ \A at \in {[i \in 1 .. Len(d) |-> Pos(d[i])]} :
                \A i, j \in 1 .. Len(d) : i < j => at[i] > at[j]

C11_Witness ==
    /\ posts # << >>
    /\ Len(extracted) = 12
    /\ Len(Last(posts).payload.data) = 12
    /\ Last(posts).payload.data[1] = extracted[12]
    /\ Last(posts).payload.data[12] = extracted[1]
    /\ nbad = 1

\* C12: the step that dequeues a line from which extraction returns None
\* takes the line off the queue, leaves the batch as it was, issues no POST
\* and goes back to the top of the loop.
C12_FailedExtractionDiscarded ==
    [][ (/\ spc = "get" /\ spc' # "get"
         /\ queue # << >>
         /\ extract_airborne_fields(Head(queue), fields) = None)
        => /\ queue' = Tail(queue)
           /\ batch_queue' = batch_queue
           /\ posts' = posts
           /\ nposts' = nposts
           /\ spc' = "top" ]_vars

\* nine readings and one malformed line have been dequeued and nothing was
\* posted
C12_Witness ==
    /\ nbad = 1
    /\ emitted = 9
    /\ queue = << >>
    /\ Len(batch_queue) = 9
    /\ nposts = 0
    /\ spc = "get"

\* C13: the sender thread ends only by leaving its loop on the exit signal:
\* whenever the thread has ended it has reached the statement after the
\* loop, and the exit signal is set.
C13_EndsOnlyOnExit ==
    (spc \notin {"unstarted", "top", "get", "post"})
    => (spc = "finished" /\ exiting)

\* C14: run_client never returns 1: listen() returns normally only with the
\* exit signal set, only the interrupt handler sets the signal, and when
\* run_client has returned it has returned 0.
C14_NeverReturnsOne ==
    /\ [](retcode # Some(1))
    /\ [](mpc = "returned" => retcode = Some(0))
    /\ [][ /\ (mpc \in ListenPcs /\ mpc' = "returned") => exiting
           /\ (~exiting /\ exiting') => mpc = "handler" ]_vars

\* run_client has returned after its listener ran and its sender ended
C14_Witness ==
    /\ mpc = "returned"
    /\ retcode = Some(0)
    /\ emitted > 0
    /\ spc = "finished"

\* the tokens of the line given to the extractor
XTokens == Split(xdata, COMMA)

\* the extractor was called on a 13-token line whose last two tokens are an
\* integer and a number
XNumericLine ==
    /\ xresult # None
    /\ Len(XTokens) = 13
    /\ IntOk(XTokens[12])
    /\ FloatOk(XTokens[13])

\* the extractor was called on a 13-token line with gpsweek 2000 and
\* gpsweekseconds 0
XWeek2000 ==
    /\ XNumericLine
    /\ IntVal(XTokens[12]) = 2000
    /\ FloatVal(XTokens[13]) = << 0 >>

\* C15 as stated: for gpsweek 2000 and gpsweekseconds 0 the timestamp is
\* 1525764800.
C15_TimestampAsStated ==
    XWeek2000 => /\ xresult[1] # None
                 /\ xresult[1][1]["datetime"] = << TFloat, 1525764800 >>

\* C15, amended: for gpsweek 2000 and gpsweekseconds 0 the timestamp is
\* 315964800 + 2000 * 604800 + 0 = 1525564800.
C15_Timestamp ==
    XWeek2000 => /\ xresult[1] # None
                 /\ xresult[1][1]["datetime"] = << TFloat, 1525564800 >>

C15_Witness ==
    /\ XWeek2000
    /\ xresult[1] # None
    /\ "datetime" \notin xfields

CountLF(b) == Cardinality({j \in 1 .. Len(b) : b[j] = LF})

\* C17: the values readline has returned, concatenated, followed by the
\* internal buffer are the bytes read from the device, in order; a value
\* returned that is not empty holds exactly one line feed, as its last byte.
C17_ReadlineReassembles ==
    /\ out \o buffer = rx
    /\ (line # None /\ line[1].v # << >>)
       => /\ Last(line[1].v) = LF
          /\ CountLF(line[1].v) = 1

\* a line put together from the buffer and a read of one byte is returned
\* after an earlier line, while more bytes wait in the device
C17_Witness ==
    /\ mpc = "put"
    /\ line # None
    /\ Len(line[1].v) >= 2
    /\ chunk = 1
    /\ Len(out) > Len(line[1].v)
    /\ exiting
    /\ pending # << >>

\* C18: every item ever put on the queue is a non-empty text, and the step
\* that handles a value decoding to the empty string, the sentinels of a
\* zero-length read and of the exit signal among them, puts nothing on it.
C18_OnlyNonEmptyLinesQueued ==
    /\ [](\A i \in 1 .. Len(enq) : enq[i] # << >>)
    /\ [][ (mpc = "put" /\ mpc' # "put" /\ decode_bytearr(line[1]) = << >>)
           => (queue' = queue /\ enq' = enq) ]_vars

\* a line of CR LF was returned and skipped, the line after it was enqueued
C18_Witness ==
    /\ out = << CR, LF, DOLLAR, LF >>
    /\ enq = << << DOLLAR >> >>
    /\ queue = enq
    /\ mpc = "listen"

\* the readings of a payload, each named by its place in the order of
\* extraction
Readings(d) == {Pos(d[i]) : i \in 1 .. Len(d)}

\* C19: a payload's length is the number of its readings and it holds no
\* reading twice; the payload of the POST being sent is exactly the readings
\* extracted since a POST was last answered "OK" (since the start when none
\* was), newest first; and no reading of a POST answered "OK" is in a later
\* POST.
C19_NoReadingTwice ==
    /\ \A j \in 1 .. Len(extracted) :
         \A i \in 1 .. (j - 1) : extracted[i] # extracted[j]
    /\ acked <= Len(extracted)
    /\ \A p \in 1 .. Len(posts) :
         LET d == posts[p].payload.data
         IN  /\ posts[p].payload.length = Len(d)
             /\ \A i \in 1 .. Len(d) :
                  \E j \in 1 .. Len(extracted) : extracted[j] = d[i]
             /\ Cardinality(Readings(d)) = Len(d)
    /\ spc = "post"
       => Last(posts).payload.data
            = Reverse(SubSeq(extracted, acked + 1, Len(extracted)))
    /\ \A p, q \in 1 .. Len(posts) :
         (p < q /\ AnsweredOK(posts[p]))
         => Readings(posts[p].payload.data)
              \cap Readings(posts[q].payload.data) = {}

\* ten readings were acknowledged, a malformed line was discarded, the next
\* ten were sent without success and are being sent again with an eleventh
C19_Witness ==
    /\ acked = 10
    /\ Len(extracted) = 21
    /\ nbad = 1
    /\ spc = "post"
    /\ Len(posts) = 3
    /\ AnsweredOK(posts[1])
    /\ AnsweredFail(posts[2])
    /\ Len(posts[3].payload.data) = 11

=============================================================================
